---- MODULE Spec2Model ----
(***************************************************************************)
(* Model of dcrlibwallet's LibWallet: the wallet lifecycle operations of   *)
(* wallet.go and the synchronization / rescan orchestration of the sync    *)
(* file (syncData, SpvSync, RpcSync, connectToRpcClient, CancelSync,       *)
(* RescanBlocks).                                                          *)
(*                                                                         *)
(* Caller threads and goroutines interleave at the granularity of the      *)
(* shared reads and writes of the source; an unsynchronized field access   *)
(* is one atomic step of the thread that performs it.                      *)
(***************************************************************************)
EXTENDS Integers, Sequences, FiniteSets, TLC

(***************************************************************************)
(* Bounds of the model.                                                    *)
(***************************************************************************)
\* longest passphrase buffer handed to a passphrase operation
MaxPassLen == 2
\* largest byte value of a passphrase buffer (bytes are 0..MaxByte)
MaxByte == 1
\* number of caller threads that issue start requests concurrently
NumCallers == 2
\* number of progress listeners that can be registered
MaxListeners == 1
\* number of CancelSync calls in one behaviour
MaxCancels == 2
\* longest address string handed to SpvSync or RpcSync
MaxAddrLen == 3
\* number of rescan tasks launched in one behaviour
MaxRescans == 2
\* highest block height a rescan reports
MaxHeight == 2

(***************************************************************************)
(* Error kinds (the Err* constants and the other error values returned).   *)
(***************************************************************************)
NoError == "nil"
ErrWalletNotLoaded == "ErrWalletNotLoaded"
ErrSyncAlreadyInProgress == "ErrSyncAlreadyInProgress"
ErrInvalidPeers == "ErrInvalidPeers"
ErrInvalidAddress == "ErrInvalidAddress"
ErrInvalid == "ErrInvalid"
ErrInvalidAuth == "ErrInvalidAuth"
ErrContextCanceled == "ErrContextCanceled"
ErrUnavailable == "ErrUnavailable"
ErrNotConnected == "ErrNotConnected"
ErrEmptySeed == "ErrEmptySeed"
\* fmt.Errorf("wallet has not been loaded") of UnlockWallet
ErrNotLoadedText == "wallet has not been loaded"
\* an error of a collaborator (loader, wallet, seed decoder, index store,
\* RPC client constructor), as returned or as translated by translateError
ErrOther == "other"

VARIABLES
    \* wallet.go
    loaded,       \* walletLoader.LoadedWallet() reports a loaded wallet
    lwWallet,     \* lw.wallet != nil
    txIndexDB,    \* lw.txIndexDB != nil
    locked,       \* lw.wallet.Locked()
    lastCall,     \* the last wallet.go call that returned: its buffers and result
    \* the wallet's and the loader's backend slots (0: no backend, else the
    \* id of the syncer whose backend is attached)
    walletBackend,
    loaderBackend,
    \* syncData
    rpcClient,    \* lw.rpcClient (0: nil, else the id of the connection)
    cancelSync,   \* lw.cancelSync (0: nil, else the id of its context)
    nListeners,   \* len(lw.syncProgressListeners)
    rescanning,   \* lw.rescanning
    \* the broadcasts to the listeners: for each thread or goroutine, the
    \* events it broadcast, in order (for a caller thread, those of its last
    \* start request)
    events,
    \* caller threads inside SpvSync / RpcSync
    pc,
    local,
    \* syncers created by start requests and their run-loop goroutines
    syncers,
    \* contexts made by contextWithShutdownCancel for start requests: the
    \* context made by caller t has id t (a caller makes a new context only
    \* after its previous start request failed and dropped the old one)
    canceled,     \* ids of the contexts in use that are done
    shutdownRequested,
    nClients,     \* number of RPC connections established and started
    \* rescan goroutines, and the result of the last RescanBlocks call
    rescans,
    lastRescan,
    \* history: the last start request that returned, and the number of
    \* start requests that returned success
    lastReturn,
    nStarted

walletVars == <<loaded, lwWallet, txIndexDB, locked, lastCall>>

slotVars == <<walletBackend, loaderBackend>>

sessionVars == <<rpcClient, cancelSync, nClients>>

callerVars == <<pc, local, lastReturn, nStarted>>

ctxVars == <<canceled, shutdownRequested>>

rescanVars == <<rescanning, rescans, lastRescan>>

vars == <<loaded, lwWallet, txIndexDB, locked, lastCall, walletBackend,
          loaderBackend, rpcClient, cancelSync, nListeners, rescanning, events,
          pc, local, syncers, canceled, shutdownRequested, nClients,
          rescans, lastRescan, lastReturn, nStarted>>

(***************************************************************************)
(* Passphrase buffers: byte slices owned by the caller.                    *)
(***************************************************************************)
Byte == 0..MaxByte

PassBuf == UNION {[1..n -> Byte] : n \in 0..MaxPassLen}

\* for i := range buf { buf[i] = 0 }
Wipe(buf) == [i \in 1..Len(buf) |-> 0]

AllZero(buf) == \A i \in 1..Len(buf) : buf[i] = 0

NoCall ==
    [op |-> "none", inBufs |-> <<>>, outBufs |-> <<>>, err |-> NoError,
     lockedBefore |-> FALSE, lockCalls |-> 0]

Returned(op, inBufs, outBufs, err) ==
    [op |-> op, inBufs |-> inBufs, outBufs |-> outBufs, err |-> err,
     lockedBefore |-> locked, lockCalls |-> 0]

(***************************************************************************)
(* wallet.go                                                               *)
(***************************************************************************)

\* CreateWallet(passphrase, seedMnemonic): seedEmpty is len(seedMnemonic) = 0,
\* decodeOk the outcome of walletseed.DecodeUserInput, loaderOk the outcome
\* of walletLoader.CreateNewWallet (which can succeed only when no wallet is
\* loaded).  The new wallet is locked.
CreateWallet(seedEmpty, decodeOk, loaderOk) ==
    IF seedEmpty
    THEN /\ lastCall' = Returned("CreateWallet", <<>>, <<>>, ErrEmptySeed)
         /\ UNCHANGED <<loaded, lwWallet, txIndexDB, locked>>
    ELSE IF ~decodeOk \/ ~loaderOk \/ loaded
    THEN /\ lastCall' = Returned("CreateWallet", <<>>, <<>>, ErrOther)
         /\ UNCHANGED <<loaded, lwWallet, txIndexDB, locked>>
    ELSE /\ loaded' = TRUE
         /\ lwWallet' = TRUE
         /\ locked' = TRUE
         /\ lastCall' = Returned("CreateWallet", <<>>, <<>>, NoError)
         /\ UNCHANGED txIndexDB

\* OpenWallet(pubPass): loaderOk is the outcome of
\* walletLoader.OpenExistingWallet (which can succeed only when no wallet is
\* loaded), indexOk the outcome of txindex.Initialize.  lw.wallet is
\* assigned before the index store is initialized.
OpenWallet(loaderOk, indexOk) ==
    IF ~loaderOk \/ loaded
    THEN /\ lastCall' = Returned("OpenWallet", <<>>, <<>>, ErrOther)
         /\ UNCHANGED <<loaded, lwWallet, txIndexDB, locked>>
    ELSE /\ loaded' = TRUE
         /\ lwWallet' = TRUE
         /\ locked' = TRUE
         /\ IF indexOk
            THEN /\ txIndexDB' = TRUE
                 /\ lastCall' = Returned("OpenWallet", <<>>, <<>>, NoError)
            ELSE /\ txIndexDB' = txIndexDB
                 /\ lastCall' = Returned("OpenWallet", <<>>, <<>>, ErrOther)

WalletOpened == lwWallet

\* UnlockWallet(privPass): unlockOk is the outcome of loadedWallet.Unlock.
\* The wipe is deferred only after the loaded-wallet check.
UnlockWallet(privPass, unlockOk) ==
    IF ~loaded
    THEN /\ lastCall' = Returned("UnlockWallet", <<privPass>>, <<privPass>>,
                                 ErrNotLoadedText)
         /\ UNCHANGED <<loaded, lwWallet, txIndexDB, locked>>
    ELSE /\ locked' = IF unlockOk THEN FALSE ELSE locked
         /\ lastCall' = Returned("UnlockWallet", <<privPass>>, <<Wipe(privPass)>>,
                                 IF unlockOk THEN NoError ELSE ErrOther)
         /\ UNCHANGED <<loaded, lwWallet, txIndexDB>>

\* LockWallet(): if lw.wallet.Locked() { lw.wallet.Lock() }.
\* Dereferences lw.wallet, so the wallet handle must be set.
LockWallet ==
    /\ lwWallet
    /\ locked' = IF locked THEN TRUE ELSE locked
    /\ lastCall' = [Returned("LockWallet", <<>>, <<>>, NoError)
                      EXCEPT !.lockCalls = IF locked THEN 1 ELSE 0]
    /\ UNCHANGED <<loaded, lwWallet, txIndexDB>>

\* ChangePrivatePassphrase(oldPass, newPass): changeOk is the outcome of
\* lw.wallet.ChangePrivatePassphrase; both buffers are wiped by the deferred
\* function.
ChangePrivatePassphrase(oldPass, newPass, changeOk) ==
    /\ lwWallet
    /\ lastCall' = Returned("ChangePrivatePassphrase", <<oldPass, newPass>>,
                            <<Wipe(oldPass), Wipe(newPass)>>,
                            IF changeOk THEN NoError ELSE ErrOther)
    /\ UNCHANGED <<loaded, lwWallet, txIndexDB, locked>>

\* The caller's buffer after ChangePublicPassphrase: an empty buffer is
\* replaced, in the callee's variable, by a fresh copy of the insecure
\* default, and the deferred wipe then clears that copy; a non-empty buffer
\* is wiped in place.
WipedPublic(buf) == IF Len(buf) = 0 THEN buf ELSE Wipe(buf)

ChangePublicPassphrase(oldPass, newPass, changeOk) ==
    /\ lwWallet
    /\ lastCall' = Returned("ChangePublicPassphrase", <<oldPass, newPass>>,
                            <<WipedPublic(oldPass), WipedPublic(newPass)>>,
                            IF changeOk THEN NoError ELSE ErrOther)
    /\ UNCHANGED <<loaded, lwWallet, txIndexDB, locked>>

(***************************************************************************)
(* Listeners (ProgressBroadcaster).  A broadcast is the loop                *)
(* "for _, l := range lw.syncProgressListeners { l.OnX(...) }": it reaches  *)
(* the listeners registered when it runs, which are the first "to"          *)
(* listeners.                                                               *)
(***************************************************************************)
Listeners == 1..MaxListeners

PROGRESS == "PROGRESS"
FINISH == "FINISH"

Event(ev, a, b) == [ev |-> ev, a |-> a, b |-> b, to |-> 0]

OnSynced(synced) == Event("OnSynced", IF synced THEN 1 ELSE 0, "")

OnSyncError(code) == Event("OnSyncError", code, "")

OnPeerDisconnected(count) == Event("OnPeerDisconnected", count, "")

OnRescan(height, phase) == Event("OnRescan", height, phase)

\* the threads and goroutines that broadcast
CallOf(t) == <<"call", t>>
RunOf(s) == <<"sync", s>>
RescanOf(r) == <<"rescan", r>>
Canceller == <<"cancel", 0>>

Sources ==
    {Canceller} \cup {CallOf(t) : t \in 1..NumCallers}
        \cup {RunOf(t) : t \in 1..NumCallers}
        \cup {RescanOf(r) : r \in 1..MaxRescans}

DeliveredTo(e, l) == l <= e.to

\* what listener l has been delivered by src, in order
Received(l, src) == SelectSeq(events[src], LAMBDA e : DeliveredTo(e, l))

\* src broadcasts the events es
Broadcast(src, es) ==
    events' = [events EXCEPT ![src] =
                 @ \o [i \in 1..Len(es) |-> [es[i] EXCEPT !.to = nListeners]]]

\* lw.notifySyncError(code, err): OnSyncError(code, err) to every listener
notifySyncError(code) == <<OnSyncError(code)>>

AddSyncProgressListener ==
    /\ nListeners < MaxListeners
    /\ nListeners' = nListeners + 1
    /\ UNCHANGED <<walletVars, slotVars, sessionVars, rescanVars, events,
                   callerVars, syncers, ctxVars>>

(***************************************************************************)
(* Addresses: strings over a small alphabet.  ";" separates the entries of *)
(* a peer list, "[" opens an IPv6 literal (never closed in this alphabet), *)
(* "h" is any other character; ":" separates host and port.                *)
(***************************************************************************)
Char == {"h", "[", ";"}

AddrString == UNION {[1..n -> Char] : n \in 0..MaxAddrLen}

\* the network's default peer port and JSON-RPC client port
DefaultPort == "p"
JSONRPCClientPort == "r"

RECURSIVE IndexOf(_, _, _)
\* index of the first c in s at or after i, 0 if there is none
IndexOf(s, c, i) ==
    IF i > Len(s) THEN 0
    ELSE IF s[i] = c THEN i
    ELSE IndexOf(s, c, i + 1)

RECURSIVE Split(_)
\* strings.Split(s, ";")
Split(s) ==
    LET i == IndexOf(s, ";", 1)
    IN  IF i = 0 THEN <<s>>
        ELSE <<SubSeq(s, 1, i - 1)>> \o Split(SubSeq(s, i + 1, Len(s)))

Count(s, c) == Cardinality({i \in 1..Len(s) : s[i] = c})

\* utils.NormalizeAddress(addr, defaultPort): host:port is kept, a missing
\* port is filled in with the default (an address with several colons is
\* taken as an IPv6 literal and bracketed), an unbalanced bracket is an error
NormalizeAddress(addr, defaultPort) ==
    IF Count(addr, "[") > 0 THEN [ok |-> FALSE, addr |-> <<>>]
    ELSE IF Count(addr, ":") = 1 THEN [ok |-> TRUE, addr |-> addr]
    ELSE IF Count(addr, ":") = 0
    THEN [ok |-> TRUE, addr |-> addr \o <<":", defaultPort>>]
    ELSE [ok |-> TRUE, addr |-> <<"[">> \o addr \o <<"]", ":", defaultPort>>]

(***************************************************************************)
(* Start requests.  A caller thread t runs SpvSync or RpcSync; pc[t] is     *)
(* its position, local[t] its local variables.                              *)
(***************************************************************************)
Callers == 1..NumCallers

IdleLocal ==
    [valid |-> <<>>, ctx |-> 0, client |-> 0, syncer |-> 0, afterStart |-> FALSE]

Returns(op, err, afterStart) == [op |-> op, err |-> err, afterStart |-> afterStart]

\* the thread returns err from op
Return(t, op, err) ==
    /\ pc' = [pc EXCEPT ![t] = "idle"]
    /\ lastReturn' = Returns(op, err, local[t].afterStart)
    /\ nStarted' = IF err = NoError THEN nStarted + 1 ELSE nStarted
    /\ local' = [local EXCEPT ![t] = IdleLocal]

Goto(t, label, newLocal) ==
    /\ pc' = [pc EXCEPT ![t] = label]
    /\ local' = [local EXCEPT ![t] = newLocal]
    /\ UNCHANGED <<lastReturn, nStarted>>

\* the guard without its check of the wallet's backend: property C1 does not
\* hold of a program that has this guard
GuardWithoutBackendCheck == IF loaded THEN NoError ELSE ErrWalletNotLoaded

\* getLoadedWalletForSyncing: the error it returns
getLoadedWalletForSyncing ==
    IF loaded
    THEN IF walletBackend # 0 THEN ErrSyncAlreadyInProgress ELSE NoError
    ELSE ErrWalletNotLoaded

\* Entry of start request op: the guard.  afterStart records whether a start
\* request had returned success before this one was issued.
StartGuard(t, op, next) ==
    /\ pc[t] = "idle"
    /\ LET err == getLoadedWalletForSyncing
       IN  IF err # NoError
           THEN /\ lastReturn' = Returns(op, err, nStarted > 0)
                /\ UNCHANGED <<pc, local, nStarted>>
           ELSE Goto(t, next, [IdleLocal EXCEPT !.afterStart = nStarted > 0])
    /\ events' = [events EXCEPT ![CallOf(t)] = <<>>]
    /\ UNCHANGED <<walletVars, slotVars, sessionVars, nListeners, rescanVars,
                   syncers, ctxVars>>

\* SpvSync, lines 33-36
SpvSync(t) == StartGuard(t, "SpvSync", "spv_parse")

\* a loop that keeps every entry as it is: property C11 does not hold of a
\* program that has this loop
EveryEntry(entries) == entries

RECURSIVE ValidPeers(_)
\* validPeerAddresses after the loop over the entries
ValidPeers(entries) ==
    IF entries = <<>> THEN <<>>
    ELSE LET n == NormalizeAddress(Head(entries), DefaultPort)
         IN  (IF n.ok THEN <<n.addr>> ELSE <<>>) \o ValidPeers(Tail(entries))

RECURSIVE InvalidNotices(_)
\* the notifySyncError(3, ...) calls of the loop, one per invalid entry
InvalidNotices(entries) ==
    IF entries = <<>> THEN <<>>
    ELSE (IF NormalizeAddress(Head(entries), DefaultPort).ok
          THEN <<>> ELSE notifySyncError(3))
         \o InvalidNotices(Tail(entries))

\* the entries of the address list (peerAddresses != "" guards the split)
PeerEntries(peerAddresses) ==
    IF peerAddresses = <<>> THEN <<>> ELSE Split(peerAddresses)

\* a check that lets every address list through: property C10 does not hold
\* of a program that has this check
NeverNoValidPeers(peerAddresses, valid) == FALSE

\* peerAddresses != "" and len(validPeerAddresses) == 0
NoValidPeers(peerAddresses, valid) == peerAddresses # <<>> /\ Len(valid) = 0

\* SpvSync, lines 38-57: the address list peerAddresses that the caller
\* handed over is split and its entries normalized
SpvSyncParse(t, peerAddresses) ==
    /\ pc[t] = "spv_parse"
    /\ LET entries == PeerEntries(peerAddresses)
           valid   == ValidPeers(entries)
       IN  /\ Broadcast(CallOf(t), InvalidNotices(entries))
           /\ IF NoValidPeers(peerAddresses, valid)
              THEN Return(t, "SpvSync", ErrInvalidPeers)
              ELSE Goto(t, "spv_attachWallet", [local[t] EXCEPT !.valid = valid])
    /\ UNCHANGED <<walletVars, slotVars, sessionVars, nListeners, rescanVars,
                   syncers, ctxVars>>

NewSyncer(kind, peers, client, ctx) ==
    [kind |-> kind, peers |-> peers, client |-> client, ctx |-> ctx,
     state |-> "new", outcome |-> "none"]

\* SpvSync, lines 59-65: the syncer is made and attached to the wallet
SpvSyncAttachWallet(t) ==
    /\ pc[t] = "spv_attachWallet"
    /\ syncers' = Append(syncers, NewSyncer("spv", local[t].valid, 0, 0))
    /\ walletBackend' = Len(syncers) + 1
    /\ Goto(t, "spv_attachLoader",
            [local[t] EXCEPT !.valid = <<>>, !.syncer = Len(syncers) + 1])
    /\ UNCHANGED <<walletVars, loaderBackend, sessionVars, nListeners,
                   rescanVars, events, ctxVars>>

\* SpvSync, line 66
SpvSyncAttachLoader(t) ==
    /\ pc[t] = "spv_attachLoader"
    /\ loaderBackend' = local[t].syncer
    /\ Goto(t, "spv_launch", local[t])
    /\ UNCHANGED <<walletVars, walletBackend, sessionVars, nListeners,
                   rescanVars, events, syncers, ctxVars>>

\* caller t makes a fresh context
NewContext(t) ==
    /\ canceled' = canceled \ {t}
    /\ UNCHANGED shutdownRequested

\* SpvSync, lines 68-85: the context is made, its cancel function stored,
\* the goroutine running syncer.Run launched, and nil returned
SpvSyncLaunch(t) ==
    /\ pc[t] = "spv_launch"
    /\ NewContext(t)
    /\ cancelSync' = t
    /\ syncers' = [syncers EXCEPT ![local[t].syncer].ctx = t,
                                  ![local[t].syncer].state = "running"]
    /\ Return(t, "SpvSync", NoError)
    /\ UNCHANGED <<walletVars, slotVars, rpcClient, nClients, nListeners,
                   rescanVars, events>>

\* a context is done once its cancel function ran (CancelSync or shutdown)
Done(ctx) == ctx \in canceled

\* RpcSync, lines 89-92
RpcSync(t) == StartGuard(t, "RpcSync", "rpc_storeCancel")

\* RpcSync, lines 94-95: the context is made and its cancel function stored
RpcSyncStoreCancel(t) ==
    /\ pc[t] = "rpc_storeCancel"
    /\ NewContext(t)
    /\ cancelSync' = t
    /\ Goto(t, "rpc_readCache", [local[t] EXCEPT !.ctx = t])
    /\ UNCHANGED <<walletVars, slotVars, rpcClient, nClients, nListeners,
                   rescanVars, events, syncers>>

\* connectToRpcClient, lines 134-141: the cache is read under the lock, and
\* a cached client is returned as it is
connectReadCache(t) ==
    /\ pc[t] = "rpc_readCache"
    /\ IF rpcClient # 0
       THEN Goto(t, "rpc_attachLoader", [local[t] EXCEPT !.client = rpcClient])
       ELSE Goto(t, "rpc_dial", local[t])
    /\ UNCHANGED <<walletVars, slotVars, sessionVars, nListeners, rescanVars,
                   events, syncers, ctxVars>>

\* outcomes of chainClient.Start(ctx, false)
StartOutcomes == {"ok", "invalidAuth", "canceled", "failed"}

\* connectToRpcClient, lines 154-162: the error returned for a failed Start
StartError(outcome) ==
    IF outcome = "invalidAuth" THEN ErrInvalid
    ELSE IF outcome = "canceled" THEN ErrContextCanceled
    ELSE ErrUnavailable

\* connectToRpcClient, lines 144-162: the error of a connection attempt to
\* networkAddress (newOk: chain.NewRPCClient succeeds; outcome: of Start)
connectError(networkAddress, newOk, outcome) ==
    IF ~NormalizeAddress(networkAddress, JSONRPCClientPort).ok
    THEN ErrInvalidAddress
    ELSE IF ~newOk THEN ErrOther
    ELSE IF outcome # "ok" THEN StartError(outcome)
    ELSE NoError

\* connectToRpcClient, lines 144-162, and the return of RpcSync at line 99
\* when the connection attempt fails.  Start reports a canceled context only
\* for a context that is done.
connectDial(t, networkAddress, newOk, outcome) ==
    /\ pc[t] = "rpc_dial"
    /\ outcome = "canceled" => Done(local[t].ctx)
    /\ LET err == connectError(networkAddress, newOk, outcome)
       IN  IF err # NoError
           THEN /\ Return(t, "RpcSync", err)
                /\ canceled' = canceled \ {local[t].ctx}
                /\ UNCHANGED nClients
           ELSE /\ nClients' = nClients + 1
                /\ Goto(t, "rpc_setCache", [local[t] EXCEPT !.client = nClients + 1])
                /\ UNCHANGED canceled
    /\ UNCHANGED <<walletVars, slotVars, rpcClient, cancelSync, nListeners,
                   rescanVars, events, syncers, shutdownRequested>>

\* connectToRpcClient, lines 165-169: the new client is cached under the lock
connectSetCache(t) ==
    /\ pc[t] = "rpc_setCache"
    /\ rpcClient' = local[t].client
    /\ Goto(t, "rpc_attachLoader", local[t])
    /\ UNCHANGED <<walletVars, slotVars, cancelSync, nClients, nListeners,
                   rescanVars, events, syncers, ctxVars>>

\* RpcSync, lines 102-106: the syncer and its backend are made, and the
\* backend attached to the loader
RpcSyncAttachLoader(t) ==
    /\ pc[t] = "rpc_attachLoader"
    /\ syncers' = Append(syncers,
                         NewSyncer("rpc", <<>>, local[t].client, local[t].ctx))
    /\ loaderBackend' = Len(syncers) + 1
    /\ Goto(t, "rpc_attachWallet", [local[t] EXCEPT !.syncer = Len(syncers) + 1])
    /\ UNCHANGED <<walletVars, walletBackend, sessionVars, nListeners,
                   rescanVars, events, ctxVars>>

\* RpcSync, line 107
RpcSyncAttachWallet(t) ==
    /\ pc[t] = "rpc_attachWallet"
    /\ walletBackend' = local[t].syncer
    /\ Goto(t, "rpc_notify", local[t])
    /\ UNCHANGED <<walletVars, loaderBackend, sessionVars, nListeners,
                   rescanVars, events, syncers, ctxVars>>

\* an RpcSync that goes on to launch the goroutine without the notice:
\* property C15 does not hold of a program that has this step
RpcSyncWithoutNotice(t) ==
    /\ pc[t] = "rpc_notify"
    /\ Goto(t, "rpc_launch", local[t])
    /\ UNCHANGED <<walletVars, slotVars, sessionVars, nListeners, rescanVars,
                   events, syncers, ctxVars>>

\* RpcSync, lines 110-112: peer count is not reported over RPC
RpcSyncNotify(t) ==
    /\ pc[t] = "rpc_notify"
    /\ Broadcast(CallOf(t), <<OnPeerDisconnected(-1)>>)
    /\ Goto(t, "rpc_launch", local[t])
    /\ UNCHANGED <<walletVars, slotVars, sessionVars, nListeners, rescanVars,
                   syncers, ctxVars>>

\* RpcSync, lines 115-128: the goroutine running syncer.Run is launched and
\* nil returned
RpcSyncLaunch(t) ==
    /\ pc[t] = "rpc_launch"
    /\ syncers' = [syncers EXCEPT ![local[t].syncer].state = "running"]
    /\ Return(t, "RpcSync", NoError)
    /\ UNCHANGED <<walletVars, slotVars, sessionVars, nListeners, rescanVars,
                   events, ctxVars>>

(***************************************************************************)
(* The goroutine of a started sync: syncer.Run returns and its outcome is  *)
(* classified.                                                             *)
(***************************************************************************)
RunOutcomes == {"nil", "canceled", "deadline", "other"}

\* a goroutine that reports every error as unclassified: property C17 does
\* not hold of a program that has this goroutine
UnclassifiedCode(outcome) == -1

\* the code handed to notifySyncError for a non-nil outcome of syncer.Run
SyncErrorCode(outcome) ==
    IF outcome = "canceled" THEN 1
    ELSE IF outcome = "deadline" THEN 2
    ELSE -1

\* the goroutine's notifications when syncer.Run returns outcome
RunNotices(outcome) ==
    IF outcome = "nil" THEN <<>> ELSE notifySyncError(SyncErrorCode(outcome))

\* syncer.Run returns context.Canceled only for a context that is done
SyncRunReturns(s, outcome) ==
    /\ s \in 1..Len(syncers)
    /\ syncers[s].state = "running"
    /\ outcome = "canceled" => Done(syncers[s].ctx)
    /\ Broadcast(RunOf(s), RunNotices(outcome))
    /\ syncers' = [syncers EXCEPT ![s].state = "returned", ![s].outcome = outcome]
    /\ UNCHANGED <<walletVars, slotVars, sessionVars, nListeners, rescanVars,
                   callerVars, ctxVars>>

(***************************************************************************)
(* CancelSync, and process-wide shutdown (contextWithShutdownCancel ties   *)
(* every context to it).                                                   *)
(***************************************************************************)
\* the contexts in use: of a start request under way, or of a syncer.  The
\* context of a start request that returned an error is held by nothing but
\* lw.cancelSync.
LiveContexts ==
    ({local[t].ctx : t \in Callers} \cup {syncers[s].ctx : s \in 1..Len(syncers)})
        \ {0}

\* the context whose cancel function a CancelSync call would invoke (0: none)
Invoked == cancelSync

\* CancelSync: the stored cancel function, if any, is invoked, and
\* OnSynced(false) broadcast
CancelSync ==
    /\ Len(events[Canceller]) < MaxCancels
    /\ Broadcast(Canceller, <<OnSynced(FALSE)>>)
    /\ canceled' = IF Invoked \in LiveContexts
                   THEN canceled \cup {Invoked} ELSE canceled
    /\ UNCHANGED <<walletVars, slotVars, sessionVars, nListeners, rescanVars,
                   callerVars, syncers, shutdownRequested>>

RequestShutdown ==
    /\ ~shutdownRequested
    /\ shutdownRequested' = TRUE
    /\ UNCHANGED <<walletVars, slotVars, sessionVars, nListeners, rescanVars,
                   events, callerVars, syncers, canceled>>

\* the shutdown goroutine of context c cancels it
ShutdownCancel(c) ==
    /\ shutdownRequested
    /\ c \in LiveContexts
    /\ c \notin canceled
    /\ canceled' = canceled \cup {c}
    /\ UNCHANGED <<walletVars, slotVars, sessionVars, nListeners, rescanVars,
                   events, callerVars, syncers, shutdownRequested>>

(***************************************************************************)
(* RescanBlocks and the rescan goroutine.                                  *)
(***************************************************************************)
\* the largest int32 (totalHeight is an int32)
MaxInt32 == 2147483647

\* a + b in int32 arithmetic, wrapping around on overflow
Add32(a, b) ==
    IF b > 0 /\ a > MaxInt32 - b
    THEN (a - MaxInt32 - 1) + (b - MaxInt32 - 1)
    ELSE IF b < 0 /\ a < (-MaxInt32 - 1) - b
    THEN (a + MaxInt32 + 1) + (b + MaxInt32 + 1)
    ELSE a + b

\* a rescan goroutine: its position, the last height received and the
\* accumulated totalHeight, and the path by which it left the loop
NewRescan == [pc |-> "launched", last |-> 0, total |-> 0, exit |-> "none"]

\* rescans whose goroutine has been launched and has not exited
Alive == {r \in 1..Len(rescans) : rescans[r].pc # "exited"}

\* checks that leave out the backend: property C14 does not hold of a
\* program that has these checks
RescanningCheckOnly == IF rescanning THEN ErrInvalid ELSE NoError

\* RescanBlocks, lines 197-205 and 241: the checks made before the goroutine
\* is launched
RescanBlocksError ==
    IF walletBackend = 0 THEN ErrNotConnected
    ELSE IF rescanning THEN ErrInvalid
    ELSE NoError

\* RescanBlocks on the caller's thread.  It dereferences lw.wallet.
\* lastRescan records what it returned and whether a rescan goroutine was
\* alive when it was called.
RescanBlocks ==
    /\ lwWallet
    /\ LET err == RescanBlocksError
       IN  /\ lastRescan' = [err |-> err, alive |-> Alive # {}]
           /\ IF err = NoError
              THEN /\ Len(rescans) < MaxRescans
                   /\ rescans' = Append(rescans, NewRescan)
                   /\ events' = [events EXCEPT ![RescanOf(Len(rescans) + 1)] = <<>>]
              ELSE UNCHANGED <<rescans, events>>
    /\ UNCHANGED <<walletVars, slotVars, sessionVars, nListeners, rescanning,
                   callerVars, syncers, ctxVars>>

\* goroutine, lines 210-215: the flag is set, the channel and the context
\* made, and the producer wallet.RescanProgressFromHeight launched
RescanStart(r) ==
    /\ r \in 1..Len(rescans)
    /\ rescans[r].pc = "launched"
    /\ rescanning' = TRUE
    /\ rescans' = [rescans EXCEPT ![r].pc = "loop"]
    /\ UNCHANGED <<walletVars, slotVars, sessionVars, nListeners, lastRescan,
                   events, callerVars, syncers, ctxVars>>

\* the progress items the producer can send next: a height above the last
\* one, or an error
ProgressItems(r) ==
    {[through |-> h, err |-> FALSE] : h \in (rescans[r].last + 1)..MaxHeight}
        \cup {[through |-> 0, err |-> TRUE]}

\* goroutine, lines 217-227: one iteration of "for p := range progress",
\* receiving the item p that the producer sent.  (The channel's buffer of
\* one item only delays p between the send and this receive.)
RescanReceive(r, p) ==
    /\ r \in 1..Len(rescans)
    /\ rescans[r].pc = "loop"
    /\ p \in ProgressItems(r)
    /\ IF p.err
       THEN /\ rescans' = [rescans EXCEPT ![r].pc = "defer", ![r].exit = "error"]
            /\ UNCHANGED events
       ELSE /\ Broadcast(RescanOf(r), <<OnRescan(p.through, PROGRESS)>>)
            /\ rescans' = [rescans EXCEPT ![r].last = p.through,
                                          ![r].total = Add32(@, p.through)]
    /\ UNCHANGED <<walletVars, slotVars, sessionVars, nListeners, rescanning,
                   lastRescan, callerVars, syncers, ctxVars>>

\* a select that ends every rescan with FINISH: property C12 does not hold
\* of a program that has this select
AlwaysFinish(ctxDone) == FINISH

\* goroutine, lines 229-238: the phase of the last OnRescan, by whether
\* ctx.Done() is ready at the select
FinalPhase(ctxDone) == IF ctxDone THEN PROGRESS ELSE FINISH

\* goroutine, lines 229-238: the producer has closed the channel; the select
\* on ctx.Done() picks the phase of the last OnRescan.  The rescan's cancel
\* function is dropped, so its context is done (ctxDone) only after
\* process-wide shutdown was requested.
RescanFinish(r, ctxDone) ==
    /\ r \in 1..Len(rescans)
    /\ rescans[r].pc = "loop"
    /\ ctxDone => shutdownRequested
    /\ Broadcast(RescanOf(r), <<OnRescan(rescans[r].total, FinalPhase(ctxDone))>>)
    /\ rescans' = [rescans EXCEPT ![r].pc = "defer",
                                  ![r].exit = IF ctxDone THEN "canceled"
                                              ELSE "closed"]
    /\ UNCHANGED <<walletVars, slotVars, sessionVars, nListeners, rescanning,
                   lastRescan, callerVars, syncers, ctxVars>>

\* a cleanup that is skipped on the error path: property C7 does not hold of
\* a program that has this cleanup
ClearedUnlessError(exit, current) == IF exit = "error" THEN current ELSE FALSE

\* the value the deferred function of the goroutine leaves in lw.rescanning
\* (current before it runs) when the goroutine exits by path exit
DeferredRescanning(exit, current) == FALSE

\* goroutine, lines 207-209: the deferred function runs and the goroutine
\* exits
RescanExit(r) ==
    /\ r \in 1..Len(rescans)
    /\ rescans[r].pc = "defer"
    /\ rescanning' = DeferredRescanning(rescans[r].exit, rescanning)
    /\ rescans' = [rescans EXCEPT ![r].pc = "exited"]
    /\ UNCHANGED <<walletVars, slotVars, sessionVars, nListeners, lastRescan,
                   events, callerVars, syncers, ctxVars>>

(***************************************************************************)
(* The state after construction, and the specifications.                   *)
(***************************************************************************)
Init ==
    /\ loaded = FALSE
    /\ lwWallet = FALSE
    /\ txIndexDB = FALSE
    /\ locked = TRUE
    /\ lastCall = NoCall
    /\ walletBackend = 0
    /\ loaderBackend = 0
    /\ rpcClient = 0
    /\ cancelSync = 0
    /\ nListeners = 0
    /\ rescanning = FALSE
    /\ events = [src \in Sources |-> <<>>]
    /\ pc = [t \in Callers |-> "idle"]
    /\ local = [t \in Callers |-> IdleLocal]
    /\ syncers = <<>>
    /\ canceled = {}
    /\ shutdownRequested = FALSE
    /\ nClients = 0
    /\ rescans = <<>>
    /\ lastRescan = [err |-> "none", alive |-> FALSE]
    /\ lastReturn = Returns("none", NoError, FALSE)
    /\ nStarted = 0

otherVars ==
    <<slotVars, sessionVars, nListeners, rescanVars, events, callerVars,
      syncers, ctxVars>>

\* the wallet is created or opened
Load ==
    /\ \/ \E seedEmpty, decodeOk, loaderOk \in BOOLEAN :
             CreateWallet(seedEmpty, decodeOk, loaderOk)
       \/ \E loaderOk, indexOk \in BOOLEAN : OpenWallet(loaderOk, indexOk)
    /\ UNCHANGED otherVars

Passphrase ==
    /\ \/ \E p \in PassBuf, ok \in BOOLEAN : UnlockWallet(p, ok)
       \/ LockWallet
       \/ \E o, n \in PassBuf, ok \in BOOLEAN : ChangePrivatePassphrase(o, n, ok)
       \/ \E o, n \in PassBuf, ok \in BOOLEAN : ChangePublicPassphrase(o, n, ok)
    /\ UNCHANGED otherVars

\* a step of caller thread t
StartSyncBy(t) ==
        \/ SpvSync(t)
        \/ \E a \in AddrString : SpvSyncParse(t, a)
        \/ SpvSyncAttachWallet(t)
        \/ SpvSyncAttachLoader(t)
        \/ SpvSyncLaunch(t)
        \/ RpcSync(t)
        \/ RpcSyncStoreCancel(t)
        \/ connectReadCache(t)
        \/ \E a \in AddrString, newOk \in BOOLEAN, o \in StartOutcomes :
              connectDial(t, a, newOk, o)
        \/ connectSetCache(t)
        \/ RpcSyncAttachLoader(t)
        \/ RpcSyncAttachWallet(t)
        \/ RpcSyncNotify(t)
        \/ RpcSyncLaunch(t)

StartSync == \E t \in Callers : StartSyncBy(t)

Session ==
    \/ AddSyncProgressListener
    \/ \E s \in 1..Len(syncers), o \in RunOutcomes : SyncRunReturns(s, o)
    \/ CancelSync

Shutdown ==
    \/ RequestShutdown
    \/ \E c \in Callers : ShutdownCancel(c)

Rescan ==
    \/ RescanBlocks
    \/ \E r \in 1..MaxRescans :
          \/ RescanStart(r)
          \/ \E h \in 1..MaxHeight : RescanReceive(r, [through |-> h, err |-> FALSE])
          \/ RescanReceive(r, [through |-> 0, err |-> TRUE])
          \/ \E ctxDone \in BOOLEAN : RescanFinish(r, ctxDone)
          \/ RescanExit(r)

\* every operation
Next == Load \/ Passphrase \/ StartSync \/ Session \/ Shutdown \/ Rescan

SpecAll == Init /\ [][Next]_vars

(***************************************************************************)
(* The operations fall into three groups that write disjoint parts of the  *)
(* state (the passphrase operations write walletVars only, the rescan      *)
(* operations rescanVars and events only), so each group is checked in a   *)
(* specification of its own, together with the operations that bring the   *)
(* program to the states the group starts from.                            *)
(***************************************************************************)
\* the wallet is opened, with success
LoadOK == OpenWallet(TRUE, TRUE) /\ UNCHANGED otherVars

\* the sync session of one caller thread, whose start requests follow one
\* another: start requests, run loops, listeners, CancelSync
NextSync == LoadOK \/ StartSyncBy(1) \/ Session

Spec == Init /\ [][NextSync]_vars

\* start requests of all the caller threads, running concurrently
NextRace == LoadOK \/ StartSync

SpecRace == Init /\ [][NextRace]_vars

\* wallet.go alone
NextWallet == Load \/ Passphrase

SpecWallet == Init /\ [][NextWallet]_vars

\* one caller attaches a backend with a peer sync; then rescans and shutdown
AttachBackend ==
    \/ SpvSync(1)
    \/ SpvSyncParse(1, <<>>)
    \/ SpvSyncAttachWallet(1)
    \/ SpvSyncAttachLoader(1)
    \/ SpvSyncLaunch(1)

NextRescan ==
    \/ LoadOK
    \/ AttachBackend
    \/ AddSyncProgressListener
    \/ RequestShutdown
    \/ Rescan

SpecRescan == Init /\ [][NextRescan]_vars

(***************************************************************************)
(* Properties.                                                             *)
(***************************************************************************)
\* caller t issues a start request (the step that runs the guard)
StartRequest(t) == SpvSync(t) \/ RpcSync(t)

\* the sync goroutines that have been launched
Launched == {s \in 1..Len(syncers) : syncers[s].state # "new"}

\* C1: a start request that returns success leaves one backend attached, to
\* the wallet and to the loader; every start request issued after a start
\* request returned success returns ErrSyncAlreadyInProgress at the guard,
\* and leaves the attached backend, the stored cancel function and the sync
\* goroutines as they were.
C1_StartOnce ==
    [][\A t \in Callers :
          /\ (nStarted > 0 /\ StartRequest(t)) =>
                /\ pc'[t] = "idle"
                /\ lastReturn'.err = ErrSyncAlreadyInProgress
                /\ UNCHANGED <<walletBackend, loaderBackend, cancelSync, syncers>>
          /\ nStarted' > nStarted =>
                /\ walletBackend' # 0
                /\ loaderBackend' = walletBackend'
                /\ Launched' = {walletBackend'}]_vars

\* C1 case: a start request issued after a successful one, whose run loop is
\* still running, returned ErrSyncAlreadyInProgress
C1_Witness ==
    /\ lastReturn.afterStart
    /\ lastReturn.err = ErrSyncAlreadyInProgress
    /\ walletBackend # 0
    /\ syncers[walletBackend].state = "running"

\* C2: of the start requests that run concurrently on a loaded wallet with
\* no backend attached, at most one returns success and at most one sync
\* goroutine is launched, and no backend takes the place of an attached one.
C2_Serialized ==
    /\ nStarted <= 1
    /\ Cardinality(Launched) <= 1
    /\ Len(syncers) <= 1

\* C3: at most one rescan goroutine is alive in every state, and a
\* RescanBlocks call made while a rescan goroutine is alive returns
\* ErrInvalid.
C3_OneRescan ==
    /\ Cardinality(Alive) <= 1
    /\ lastRescan.alive => lastRescan.err = ErrInvalid

\* the terminal notifications among the events that src broadcast:
\* OnSynced(true), OnSyncError, OnRescan(_, FINISH)
Terminals(src) ==
    SelectSeq(events[src],
              LAMBDA e : \/ e.ev = "OnSynced" /\ e.a = 1
                         \/ e.ev = "OnSyncError"
                         \/ e.ev = "OnRescan" /\ e.b = FINISH)

\* C4: every sync goroutine and every rescan goroutine broadcasts at most one
\* terminal notification, and has broadcast exactly one when it has exited.
C4_OneTerminal ==
    /\ \A s \in 1..Len(syncers) :
          /\ Len(Terminals(RunOf(s))) <= 1
          /\ syncers[s].state = "returned" => Len(Terminals(RunOf(s))) = 1
    /\ \A r \in 1..Len(rescans) :
          /\ Len(Terminals(RescanOf(r))) <= 1
          /\ rescans[r].pc = "exited" => Len(Terminals(RescanOf(r))) = 1

\* C5: when UnlockWallet, ChangePrivatePassphrase or ChangePublicPassphrase
\* has returned, every byte of every passphrase buffer handed to it is zero.
C5_BuffersWiped ==
    lastCall.op \in {"UnlockWallet", "ChangePrivatePassphrase",
                     "ChangePublicPassphrase"}
        => \A i \in 1..Len(lastCall.outBufs) : AllZero(lastCall.outBufs[i])

\* C6: when LockWallet has returned the wallet is locked, and on a wallet
\* that was locked already LockWallet called no Lock on the wallet handle.
C6_LockIdempotent ==
    lastCall.op = "LockWallet"
        => /\ locked
           /\ lastCall.lockedBefore => lastCall.lockCalls = 0

\* C7: lw.rescanning is true only while a rescan goroutine that has set it
\* is alive, so that it is false once the rescan goroutines have exited, by
\* whichever path; and RescanBlocks returns ErrInvalid only when a rescan
\* goroutine is alive at the call, so that the call after an exit succeeds
\* on a wallet with a backend attached.
C7_FlagCleared ==
    /\ rescanning => \E r \in Alive : rescans[r].pc \in {"loop", "defer"}
    /\ lastRescan.err = ErrInvalid => lastRescan.alive

\* C7 case: the first rescan goroutine left its loop on a progress item with
\* an error and exited, and the RescanBlocks call made after that, with no
\* rescan goroutine alive, returned nil and launched the second rescan
C7_Witness ==
    /\ Len(rescans) = 2
    /\ rescans[1].pc = "exited"
    /\ rescans[1].exit = "error"
    /\ lastRescan = [err |-> NoError, alive |-> FALSE]

\* C8: an RpcSync whose server rejects the credentials (chainClient.Start
\* returns rpcclient.ErrInvalidAuth) returns ErrInvalidAuth, with no backend
\* attached to the wallet or the loader, no sync goroutine launched and no
\* RPC client cached.
C8_InvalidAuth ==
    [][\A t \in Callers, a \in AddrString :
          connectDial(t, a, TRUE, "invalidAuth")
              /\ NormalizeAddress(a, JSONRPCClientPort).ok
          => /\ pc'[t] = "idle"
             /\ lastReturn'.err = ErrInvalidAuth
             /\ walletBackend' = 0
             /\ loaderBackend' = 0
             /\ Launched' = {}
             /\ rpcClient' = 0]_vars

\* C9: a CancelSync call made when no start request has returned success and
\* none is under way finds no cancel function to invoke, leaves the backends,
\* the stored cancel function and lw.rescanning as they were, and broadcasts
\* OnSynced(false) once to the registered listeners.
C9_CancelBeforeSync ==
    [][(CancelSync /\ nStarted = 0 /\ \A t \in Callers : pc[t] = "idle")
          => /\ Invoked = 0
             /\ UNCHANGED <<walletBackend, loaderBackend, cancelSync, rescanning,
                            canceled>>
             /\ events'[Canceller] =
                   Append(events[Canceller],
                          [OnSynced(FALSE) EXCEPT !.to = nListeners])]_vars

\* every entry of a non-empty address list fails normalization
AllMalformed(peerAddresses) ==
    /\ peerAddresses # <<>>
    /\ LET entries == Split(peerAddresses)
       IN  \A i \in 1..Len(entries) :
              ~NormalizeAddress(entries[i], DefaultPort).ok

\* C10: an SpvSync whose address list is not empty and has only entries that
\* fail normalization returns ErrInvalidPeers, attaches no backend to the
\* wallet or the loader, stores no cancel function and launches no sync
\* goroutine.
C10_InvalidPeers ==
    [][\A t \in Callers :
          (pc[t] = "spv_parse" /\ pc'[t] # "spv_parse") =>
             \A a \in AddrString :
                (AllMalformed(a) /\ SpvSyncParse(t, a))
                => /\ pc'[t] = "idle"
                   /\ lastReturn' = Returns("SpvSync", ErrInvalidPeers,
                                            local[t].afterStart)
                   /\ UNCHANGED <<walletBackend, loaderBackend, cancelSync,
                                  syncers>>]_vars

\* C10 case: SpvSync returned ErrInvalidPeers with no backend attached, no
\* cancel function stored and no sync goroutine launched, after one
\* OnSyncError(3) for each entry of a list of two malformed entries
C10_Witness ==
    /\ lastReturn = Returns("SpvSync", ErrInvalidPeers, FALSE)
    /\ events[CallOf(1)] = <<OnSyncError(3), OnSyncError(3)>>
    /\ walletBackend = 0
    /\ loaderBackend = 0
    /\ cancelSync = 0
    /\ syncers = <<>>

\* the entries of an address list that pass normalization, normalized, in
\* the order of the list
WellFormedPeers(peerAddresses) ==
    LET entries == PeerEntries(peerAddresses)
        ok      == SelectSeq(entries,
                             LAMBDA e : NormalizeAddress(e, DefaultPort).ok)
    IN  [i \in 1..Len(ok) |-> NormalizeAddress(ok[i], DefaultPort).addr]

\* the number of entries of an address list that fail normalization
MalformedCount(peerAddresses) ==
    Len(PeerEntries(peerAddresses)) - Len(WellFormedPeers(peerAddresses))

\* C11: an SpvSync whose address list has a well-formed entry goes on past
\* the list with one OnSyncError(3) broadcast for each malformed entry and
\* the well-formed entries kept in their order; the syncer it makes gets
\* exactly these as its persistent peers, and the request returns nil.
C11_ValidPeersKept ==
    [][\A t \in Callers :
          /\ (pc[t] = "spv_parse" /\ pc'[t] # "spv_parse") =>
                \A a \in AddrString :
                   (WellFormedPeers(a) # <<>> /\ SpvSyncParse(t, a))
                   => /\ pc'[t] = "spv_attachWallet"
                      /\ local'[t].valid = WellFormedPeers(a)
                      /\ events'[CallOf(t)] =
                            [i \in 1..MalformedCount(a) |->
                                [OnSyncError(3) EXCEPT !.to = nListeners]]
          /\ (pc[t] = "spv_attachWallet" /\ pc'[t] # "spv_attachWallet")
                => /\ Len(syncers') = Len(syncers) + 1
                   /\ syncers'[Len(syncers')].peers = local[t].valid
          /\ (pc[t] \in {"spv_attachWallet", "spv_attachLoader", "spv_launch"}
                 /\ pc'[t] = "idle")
                => /\ lastReturn' = Returns("SpvSync", NoError, local[t].afterStart)
                   /\ syncers'[local[t].syncer].state = "running"
                   /\ syncers'[local[t].syncer].peers = syncers[local[t].syncer].peers]_vars

\* C11 case: SpvSync of a list with a well-formed entry followed by a
\* malformed one returned nil, after one OnSyncError(3), and the syncer runs
\* with the well-formed entry as its only persistent peer
C11_Witness ==
    /\ lastReturn = Returns("SpvSync", NoError, FALSE)
    /\ events[CallOf(1)] = <<OnSyncError(3)>>
    /\ Len(syncers) = 1
    /\ syncers[1].state = "running"
    /\ syncers[1].peers = <<WellFormedPeers(<<"h">>)[1]>>

\* the OnRescan events with phase FINISH that rescan r has broadcast
Finishes(r) ==
    SelectSeq(events[RescanOf(r)], LAMBDA e : e.ev = "OnRescan" /\ e.b = FINISH)

\* C12: when the loop of rescan r ends because the progress channel was
\* closed, r broadcasts one more OnRescan to the registered listeners, with
\* phase PROGRESS if its context is done and FINISH if it is not; r has
\* broadcast no FINISH before, and broadcasts nothing after.
C12_FinalOnRescan ==
    [][\A r \in 1..Len(rescans) :
          /\ \A ctxDone \in BOOLEAN :
                RescanFinish(r, ctxDone)
                => /\ Finishes(r) = <<>>
                   /\ events'[RescanOf(r)] =
                         Append(events[RescanOf(r)],
                                [ev |-> "OnRescan", a |-> rescans[r].total,
                                 b |-> IF ctxDone THEN PROGRESS ELSE FINISH,
                                 to |-> nListeners])
          /\ rescans[r].pc \in {"defer", "exited"}
                => events'[RescanOf(r)] = events[RescanOf(r)]]_vars

\* C12 case: with a listener registered, the first rescan ended on a closed
\* channel with its context done, and the second with its context not done
C12_Witness ==
    /\ Len(rescans) = 2
    /\ rescans[1].pc = "exited" /\ rescans[1].exit = "canceled"
    /\ rescans[2].pc = "exited" /\ rescans[2].exit = "closed"
    /\ Len(events[RescanOf(1)]) = 2
    /\ events[RescanOf(1)][2].b = PROGRESS /\ events[RescanOf(1)][2].to = 1
    /\ Finishes(1) = <<>>
    /\ Len(Finishes(2)) = 1

\* C13: the height of the last OnRescan of a rescan whose loop ended on a
\* closed channel is the highest ScannedThrough that the rescan received.
C13_FinalHeight ==
    \A r \in 1..Len(rescans) :
       rescans[r].exit \in {"canceled", "closed"}
          => events[RescanOf(r)][Len(events[RescanOf(r)])].a = rescans[r].last

\* C14: RescanBlocks on a wallet with no backend attached returns
\* ErrNotConnected, launches no rescan goroutine, broadcasts nothing and
\* leaves lw.rescanning as it was.
C14_NotConnected ==
    [][(RescanBlocks /\ walletBackend = 0)
          => /\ lastRescan'.err = ErrNotConnected
             /\ UNCHANGED <<rescans, events, rescanning>>]_vars

\* C14 case: RescanBlocks was called on the opened wallet before any backend
\* was attached, and returned ErrNotConnected
C14_Witness ==
    /\ lwWallet
    /\ walletBackend = 0
    /\ lastRescan.err = ErrNotConnected
    /\ rescans = <<>>

\* C15: an RpcSync that returns nil has broadcast OnPeerDisconnected(-1)
\* once, to the listeners registered then, before it launched the goroutine
\* of its run loop (so before any notification of that goroutine) and before
\* it returned; an RpcSync that returns an error has broadcast nothing.
C15_PeerCountNotice ==
    [][\A t \in Callers :
          /\ (pc[t] = "rpc_notify" /\ pc'[t] # "rpc_notify")
                => /\ events'[CallOf(t)] =
                         <<[OnPeerDisconnected(-1) EXCEPT !.to = nListeners]>>
                   /\ syncers[local[t].syncer].state = "new"
                   /\ events[RunOf(local[t].syncer)] = <<>>
          /\ (pc[t] \in {"rpc_dial", "rpc_launch"} /\ pc'[t] = "idle")
                => IF lastReturn'.err = NoError
                   THEN /\ Len(events'[CallOf(t)]) = 1
                        /\ events'[CallOf(t)][1].ev = "OnPeerDisconnected"
                        /\ events'[CallOf(t)][1].a = -1
                   ELSE events'[CallOf(t)] = <<>>
          /\ (RpcSync(t) /\ pc'[t] = "idle") => events'[CallOf(t)] = <<>>]_vars

\* C15 case: RpcSync returned nil after one OnPeerDisconnected(-1) to the
\* registered listener, and the run loop has notified an error since
C15_Witness ==
    /\ lastReturn = Returns("RpcSync", NoError, FALSE)
    /\ events[CallOf(1)] = <<[OnPeerDisconnected(-1) EXCEPT !.to = 1]>>
    /\ Len(syncers) = 1
    /\ syncers[1].kind = "rpc"
    /\ Len(events[RunOf(1)]) = 1

\* C16: once the run loops of the syncs that were started have returned,
\* no cancel function is stored and the guard of a start request on the
\* loaded wallet lets the request through.
C16_IdleAgain ==
    (Launched # {} /\ \A s \in Launched : syncers[s].state = "returned")
        => /\ cancelSync = 0
           /\ getLoadedWalletForSyncing = NoError

\* C17: when syncer.Run returns, the goroutine broadcasts one OnSyncError
\* to the registered listeners, with code 1 for context.Canceled, 2 for
\* context.DeadlineExceeded and -1 for any other error, and broadcasts
\* nothing for nil; the start request has returned before and its result
\* stays as it was.
C17_Classified ==
    [][\A s \in 1..Len(syncers), o \in RunOutcomes :
          SyncRunReturns(s, o)
          => /\ events[RunOf(s)] = <<>>
             /\ events'[RunOf(s)] =
                   IF o = "nil" THEN <<>>
                   ELSE <<[ev |-> "OnSyncError",
                           a  |-> CASE o = "canceled" -> 1
                                    [] o = "deadline" -> 2
                                    [] o = "other"    -> -1,
                           b  |-> "",
                           to |-> nListeners]>>
             /\ UNCHANGED <<lastReturn, nStarted>>
             /\ nStarted > 0]_vars

\* C17 case: the run loop of a started sync returned context.Canceled after
\* CancelSync, and the registered listener got OnSyncError(1)
C17_Witness ==
    /\ Len(syncers) = 1
    /\ syncers[1].state = "returned"
    /\ syncers[1].outcome = "canceled"
    /\ events[RunOf(1)] = <<[OnSyncError(1) EXCEPT !.to = 1]>>
    /\ lastReturn.err = NoError

\* C18: at most one RPC connection is established and started; the cached
\* client, once set, is not replaced; and no connection is established
\* once the cache is set.
C18_CacheCheckAndSet ==
    [][/\ nClients' <= 1
       /\ rpcClient # 0 => (rpcClient' = rpcClient /\ nClients' = nClients)]_vars

\* C19: start requests that return an error leave the session as it was:
\* while every start request made so far has returned an error and none is
\* under way, no backend is attached, no cancel function is stored, no RPC
\* client is cached, no sync goroutine runs and lw.rescanning is as it was.
C19_FailedStartFrame ==
    (nStarted = 0 /\ \A t \in Callers : pc[t] = "idle")
        => /\ walletBackend = 0
           /\ loaderBackend = 0
           /\ cancelSync = 0
           /\ rpcClient = 0
           /\ Launched = {}
           /\ ~rescanning

\* C20: the value of WalletOpened(), the wallet handle and the index store
\* change only in an OpenWallet or CreateWallet call that returns nil; a call
\* that returns an error leaves them as they were.
C20_OpenAllOrNothing ==
    [][(WalletOpened' # WalletOpened \/ lwWallet' # lwWallet
           \/ txIndexDB' # txIndexDB)
          => /\ lastCall'.op \in {"OpenWallet", "CreateWallet"}
             /\ lastCall'.err = NoError]_vars

====
